---------------------------- MODULE Spec2Model ----------------------------
(***************************************************************************)
(* Model of the peer-promotion bot of src/main.py: the JSON-file storage   *)
(* (JsonStorage), the URL validation and the update handlers that drive    *)
(* the per-user session.                                                   *)
(*                                                                         *)
(* Texts are sequences of one-character strings, so that strip(), len()    *)
(* and urlparse() are computed and not assumed.  A Python dict is a        *)
(* function whose DOMAIN is the set of its keys.  A created_at string is   *)
(* a record of its rank in the lexicographic order of strings (what max()  *)
(* and sorted() compare) and of the calendar day fromisoformat() parses    *)
(* out of it (NoDay when the parse raises ValueError).                     *)
(***************************************************************************)
EXTENDS Integers, Sequences, FiniteSets, TLC

VARIABLES
    data,          \* storage.data: the in-memory document
    next_post_id,  \* storage.next_post_id
    file,          \* content of data.json
    tmp,           \* content of data.json.tmp
    backup,        \* content of data.json.backup
    now,           \* the clock read by datetime.now(timezone.utc)
    up,            \* TRUE while the process (and its JsonStorage) is alive
    returned,      \* history: the ids save_post has returned, in order
    deleted,       \* history: ids removed by delete_post/delete_all_posts
    budget,        \* number of failures (of a save, of a reply) the environment may still inject
    sv,            \* the _save_data call in progress in the step-wise specification
    last           \* history: the last operation, its arguments and its outcome

vars == <<data, next_post_id, file, tmp, backup, now, up, returned, deleted, budget, sv, last>>

---------------------------------------------------------------------------
(* Bounds of the model *)

\* the clock runs over 0..MaxTime
MaxTime == 1
\* ticks of the clock per UTC calendar day
TicksPerDay == 1
\* save_post is taken only while next_post_id <= MaxPostId
MaxPostId == 2
\* failures (of a save, of a reply) injected in the specifications with failures
MaxFaults == 1
\* limits tried on get_recent_posts are 0..MaxLimit
MaxLimit == 2
\* documents found on disk at a start hold at most MaxLen posts
MaxLen == 3

Users == {1, 2}
ADMIN_IDS == {1}
\* update.effective_user.username of each user; "" is None
UsernameOf(u) == IF u = 1 THEN "ann" ELSE ""

CATEGORIES == {"technology", "money", "media", "personal", "culture", "science", "life"}
\* callback data a client can send after the "category_" prefix
CategoryKeys == {"technology", "hack"}

TITLE_MAX == 50

---------------------------------------------------------------------------
(* Texts *)

Xs(n) == [i \in 1..n |-> "x"]
\* " a ": a title once stripped, and no URL
TxtPadA == <<" ", "a", " ">>
TxtHttp == <<"h", "t", "t", "p", ":", "/", "/", "a">>
\* a URL of more than TITLE_MAX characters: no title
TxtLongUrl == TxtHttp \o Xs(TITLE_MAX)
\* neither a title nor a URL
TxtLong == Xs(TITLE_MAX + 1)

\* the message texts a user sends
Texts == {TxtPadA, TxtLongUrl, TxtLong}
\* "http://:", a URL with a port separator and no host
TxtNoHost == <<"h", "t", "t", "p", ":", "/", "/", ":">>

Whitespace == {" "}

RECURSIVE LStrip(_)
LStrip(s) == IF s # <<>> /\ Head(s) \in Whitespace THEN LStrip(Tail(s)) ELSE s

RECURSIVE RStrip(_)
RStrip(s) == IF s # <<>> /\ s[Len(s)] \in Whitespace THEN RStrip(SubSeq(s, 1, Len(s) - 1)) ELSE s

\* str.strip()
Strip(s) == RStrip(LStrip(s))

---------------------------------------------------------------------------
(* URL validation *)

Letters == {"a", "f", "h", "p", "s", "t", "x", "A", "F", "H", "P", "S", "T", "X"}
SchemeChars == Letters \cup {"+", "-", "."}

Lower(c) == CASE c = "A" -> "a" [] c = "F" -> "f" [] c = "H" -> "h" [] c = "P" -> "p"
              [] c = "S" -> "s" [] c = "T" -> "t" [] c = "X" -> "x" [] OTHER -> c

\* str.find of one character: the first index (1-based) or 0
Find(s, cs) == IF \E i \in DOMAIN s : s[i] \in cs
               THEN CHOOSE i \in DOMAIN s : s[i] \in cs /\ \A j \in 1..(i - 1) : s[j] \notin cs
               ELSE 0

\* urllib.parse.urlparse, reduced to the scheme and netloc it returns
urlparse(url) ==
    LET i == Find(url, {":"})
        hasScheme == /\ i > 1
                     /\ url[1] \in Letters
                     /\ \A j \in 1..(i - 1) : url[j] \in SchemeChars
        scheme == IF hasScheme THEN [j \in 1..(i - 1) |-> Lower(url[j])] ELSE <<>>
        rest == IF hasScheme THEN SubSeq(url, i + 1, Len(url)) ELSE url
        slashes == Len(rest) >= 2 /\ rest[1] = "/" /\ rest[2] = "/"
        after == SubSeq(rest, 3, Len(rest))
        delim == Find(after, {"/", "?", "#"})
        netloc == IF ~slashes THEN <<>>
                  ELSE IF delim = 0 THEN after ELSE SubSeq(after, 1, delim - 1)
    IN [scheme |-> scheme, netloc |-> netloc]

\* the hostname of a parse result: the netloc after its last "@" and before its
\* first ":", in lower case (netlocs with a bracketed IPv6 host are not among the texts)
hostname(netloc) ==
    LET ats == {i \in DOMAIN netloc : netloc[i] = "@"}
        at == IF ats = {} THEN 0 ELSE CHOOSE i \in ats : \A j \in ats : j <= i
        hostinfo == SubSeq(netloc, at + 1, Len(netloc))
        colon == Find(hostinfo, {":"})
        host == IF colon = 0 THEN hostinfo ELSE SubSeq(hostinfo, 1, colon - 1)
    IN [j \in DOMAIN host |-> Lower(host[j])]

is_valid_url(url) ==
    LET result == urlparse(Strip(url))
    IN /\ result.scheme \in {<<"h", "t", "t", "p">>, <<"h", "t", "t", "p", "s">>}
       /\ result.netloc # <<>>

---------------------------------------------------------------------------
(* Timestamps *)

NoDay == -1
\* a post without the key 'created_at', or with the empty string: x.get('created_at', '')
TsMissing == [rank |-> 0, day |-> NoDay, utc |-> NoDay]
\* a string that sorts below every ISO timestamp and does not parse, such as "!"
TsBadLow == [rank |-> 1, day |-> NoDay, utc |-> NoDay]
\* datetime.now(timezone.utc).isoformat() at clock value t: a string ending in +00:00.
\* day is the date fromisoformat(...).date() gives, utc the UTC calendar date of the instant
IsoFormat(t) == [rank |-> 2 * t + 2, day |-> t \div TicksPerDay, utc |-> t \div TicksPerDay]
\* a timestamp late on day 0 written with the offset -05:00, such as
\* "1970-01-01T23:30:00-05:00": it sorts after every UTC timestamp of day 0,
\* .date() gives day 0, and the instant lies on UTC day 1
TsOffset == [rank |-> 2 * TicksPerDay + 1, day |-> 0, utc |-> 1]
\* a string that sorts above every ISO timestamp and does not parse, such as "yesterday"
TsBadHigh == [rank |-> 2 * MaxTime + 4, day |-> NoDay, utc |-> NoDay]

\* datetime.now(timezone.utc).date()
Today(t) == t \div TicksPerDay

---------------------------------------------------------------------------
(* Python dicts *)

EmptyDict == <<>>
Put(m, k, v) == [x \in DOMAIN m \cup {k} |-> IF x = k THEN v ELSE m[x]]
Remove(m, k) == [x \in DOMAIN m \ {k} |-> m[x]]
\* dict.update: the keys of d override those of m
Update(m, d) == [x \in DOMAIN m \cup DOMAIN d |-> IF x \in DOMAIN d THEN d[x] ELSE m[x]]

Range(s) == {s[i] : i \in DOMAIN s}
RemoveAt(s, i) == SubSeq(s, 1, i - 1) \o SubSeq(s, i + 1, Len(s))
Take(s, n) == SubSeq(s, 1, IF n < Len(s) THEN n ELSE Len(s))

---------------------------------------------------------------------------
(* The document and the files *)

EmptyDocument == [posts |-> <<>>, users |-> EmptyDict, user_states |-> EmptyDict, next_post_id |-> 1]

FileAbsent == [kind |-> "absent", doc |-> EmptyDocument]
\* a file that holds the JSON text of document d.  Every key the program writes is a
\* string and every value a string, an int, a list or a dict, which json.load gives
\* back as json.dump took them: the text is identified with the document
FileDoc(d) == [kind |-> "doc", doc |-> d]
\* a file that exists and cannot be opened for reading
FileUnreadable == [kind |-> "unreadable", doc |-> EmptyDocument]
\* a file whose text is not JSON (for one, a truncated dump)
FileGarbage == [kind |-> "garbage", doc |-> EmptyDocument]
\* a file whose text is JSON and not an object, such as []
FileNonObject == [kind |-> "nonobject", doc |-> EmptyDocument]

\* JsonStorage._load_data: what it returns and what it leaves in the backup file.
\* kind "doc": the dict json.load returned; kind "nonobject": the non-dict value
\* json.load returned.  copyOk: whether shutil.copy succeeds.
load_data(f, b, copyOk) ==
    CASE f.kind = "absent" -> [value |-> FileDoc(EmptyDocument), backup |-> b]
      [] f.kind \in {"doc", "nonobject"} -> [value |-> f, backup |-> b]
      [] OTHER -> [value |-> FileDoc(EmptyDocument),
                   backup |-> IF copyOk /\ f.kind # "unreadable" THEN f ELSE b]

\* JsonStorage.__init__: raised is TRUE when data.get raises AttributeError
StorageInit(f, b, copyOk) ==
    LET l == load_data(f, b, copyOk)
    IN IF l.value.kind = "nonobject"
       THEN [raised |-> TRUE, data |-> EmptyDocument, next_post_id |-> 1, backup |-> l.backup]
       ELSE [raised |-> FALSE, data |-> l.value.doc,
             next_post_id |-> l.value.doc.next_post_id, backup |-> l.backup]

---------------------------------------------------------------------------
(* JsonStorage: pure reads *)

RECURSIVE MaxBy(_)
\* max(user_posts, key=created_at): the first post of the greatest key
MaxBy(s) ==
    IF Len(s) = 1 THEN s[1]
    ELSE LET m == MaxBy(SubSeq(s, 1, Len(s) - 1))
         IN IF s[Len(s)].created_at.rank > m.created_at.rank THEN s[Len(s)] ELSE m

can_user_post_SameDay(posts, user_id, t) ==
    LET user_posts == SelectSeq(posts, LAMBDA p : p.user_id = user_id)
    IN IF user_posts = <<>> THEN TRUE
       ELSE LET created_at == MaxBy(user_posts).created_at
            IN IF created_at.rank = 0 THEN TRUE
               ELSE IF created_at.day = NoDay THEN TRUE
               ELSE created_at.day <= Today(t)

\* JsonStorage.can_user_post at clock value t
can_user_post(posts, user_id, t) ==
    LET user_posts == SelectSeq(posts, LAMBDA p : p.user_id = user_id)
    IN IF user_posts = <<>> THEN TRUE
       ELSE LET created_at == MaxBy(user_posts).created_at
            IN IF created_at.rank = 0 THEN TRUE
               ELSE IF created_at.day = NoDay THEN TRUE
               ELSE created_at.day < Today(t)

RECURSIVE InsertDesc(_, _)
\* p is placed after every post whose key is not smaller: equal keys keep their order
InsertDesc(s, p) ==
    IF s = <<>> THEN <<p>>
    ELSE IF Head(s).created_at.rank >= p.created_at.rank
         THEN <<Head(s)>> \o InsertDesc(Tail(s), p)
         ELSE <<p>> \o s

RECURSIVE SortedDesc(_)
\* sorted(posts, key=created_at, reverse=True), which is stable
SortedDesc(s) ==
    IF s = <<>> THEN <<>>
    ELSE InsertDesc(SortedDesc(SubSeq(s, 1, Len(s) - 1)), s[Len(s)])

get_recent_posts_Unsorted(posts, limit_per_category) ==
    LET by(c) == Take(SelectSeq(posts, LAMBDA p : p.category = c), limit_per_category)
        keys == {c \in CATEGORIES : by(c) # <<>>}
    IN [c \in keys |-> by(c)]

\* JsonStorage.get_recent_posts
get_recent_posts(posts, limit_per_category) ==
    LET all_posts == SortedDesc(posts)
        by(c) == Take(SelectSeq(all_posts, LAMBDA p : p.category = c), limit_per_category)
        keys == {c \in CATEGORIES : by(c) # <<>>}
    IN [c \in keys |-> by(c)]

StartSession == [state |-> "start", data |-> EmptyDict]

\* JsonStorage.get_user_state
get_user_state(d, user_id) ==
    IF user_id \in DOMAIN d.user_states THEN d.user_states[user_id] ELSE StartSession

---------------------------------------------------------------------------
(* Worlds: the state a handler works on, threaded through the calls it      *)
(* makes.  Every operation below yields the set of worlds it can end in:   *)
(* one per outcome of the save and of the reply it performs.  ret is the   *)
(* value the last storage call returned (None and False are 0, True is 1), *)
(* exc is TRUE while an exception is propagating, out names the branch the *)
(* handler took.                                                           *)

World == [data |-> data, next_post_id |-> next_post_id, file |-> file, returned |-> returned,
          deleted |-> deleted, budget |-> budget, ret |-> 0, exc |-> FALSE, out |-> "none"]

\* the calls of F on the worlds of S in which no exception is propagating
Then(S, F(_)) == UNION {IF x.exc THEN {x} ELSE F(x) : x \in S}
\* except Exception: error_handler(update, context)
Catch(S) == {[x EXCEPT !.exc = FALSE] : x \in S}
Out(w, o) == [w EXCEPT !.out = o]

\* an awaited call to the Telegram API (answer, reply_text, edit_message_text):
\* it returns or it raises
Reply(w) == {w} \cup IF w.budget > 0 THEN {[w EXCEPT !.budget = @ - 1, !.exc = TRUE]} ELSE {}

SaveData_StaleId(w) ==
    {[w EXCEPT !.file = FileDoc(w.data), !.ret = 1]}
    \cup IF w.budget > 0 THEN {[w EXCEPT !.budget = @ - 1, !.ret = 0]} ELSE {}

\* JsonStorage._save_data as one step: the dump and the replace succeed, or one of
\* them raises, the temporary file is removed and data.json is left as it was
SaveData(w) ==
    LET d == [w.data EXCEPT !.next_post_id = w.next_post_id]
    IN {[w EXCEPT !.data = d, !.file = FileDoc(d), !.ret = 1]}
       \cup IF w.budget > 0
            THEN {[w EXCEPT !.data = d, !.budget = @ - 1, !.ret = 0]}
            ELSE {}

\* JsonStorage.save_user, up to its call of _save_data
PutUser(w, user_id, username, t) ==
    [w EXCEPT !.data.users = Put(@, user_id, [username |-> username, last_active |-> IsoFormat(t)])]

\* JsonStorage.save_user
save_user(w, user_id, username, t) ==
    IF username # "" THEN SaveData(PutUser(w, user_id, username, t)) ELSE {w}

NewPost(w, user_id, category, title, url, t) ==
    [user_id |-> user_id, category |-> category, title |-> title, url |-> url,
     created_at |-> IsoFormat(t), id |-> w.next_post_id]

AppendPost_ReuseId(w, user_id, category, title, url, t) ==
    [w EXCEPT !.data.posts = Append(@, [NewPost(w, user_id, category, title, url, t)
                                          EXCEPT !.id = Len(w.data.posts) + 1]),
              !.next_post_id = Len(w.data.posts) + 2]

\* JsonStorage.save_post, up to its call of _save_data
AppendPost(w, user_id, category, title, url, t) ==
    [w EXCEPT !.next_post_id = @ + 1,
              !.data.posts = Append(@, NewPost(w, user_id, category, title, url, t))]

\* JsonStorage.save_post
save_post(w, user_id, category, title, url, t) ==
    {IF x.ret = 1
     THEN [x EXCEPT !.ret = w.next_post_id, !.returned = Append(@, w.next_post_id)]
     ELSE [x EXCEPT !.ret = 0]
     : x \in SaveData(AppendPost(w, user_id, category, title, url, t))}

\* the index of the first post of that id, or 0
IndexOfId(posts, post_id) ==
    IF \E i \in DOMAIN posts : posts[i].id = post_id
    THEN CHOOSE i \in DOMAIN posts :
            posts[i].id = post_id /\ \A j \in 1..(i - 1) : posts[j].id # post_id
    ELSE 0

\* JsonStorage.delete_post, up to its call of _save_data: self.posts.pop(i)
PopPost(w, i) ==
    [w EXCEPT !.data.posts = RemoveAt(@, i), !.deleted = @ \cup {w.data.posts[i].id}]

\* JsonStorage.delete_post: the value _save_data returns is the value it returns
delete_post(w, post_id) ==
    LET i == IndexOfId(w.data.posts, post_id)
    IN IF i = 0 THEN {[w EXCEPT !.ret = 0]} ELSE SaveData(PopPost(w, i))

\* JsonStorage.delete_all_posts, up to its call of _save_data
ClearPosts(w) ==
    [w EXCEPT !.data.posts = <<>>, !.deleted = @ \cup {p.id : p \in Range(w.data.posts)}]

\* JsonStorage.delete_all_posts
delete_all_posts(w) ==
    LET count == Len(w.data.posts)
    IN {IF x.ret = 1 THEN [x EXCEPT !.ret = count] ELSE [x EXCEPT !.ret = 0]
        : x \in SaveData(ClearPosts(w))}

\* JsonStorage.set_user_state, up to its call of _save_data
PutState(w, user_id, state, d) ==
    LET current == IF user_id \in DOMAIN w.data.user_states
                   THEN w.data.user_states[user_id].data ELSE EmptyDict
    IN [w EXCEPT !.data.user_states =
            Put(@, user_id, [state |-> state, data |-> Update(current, d)])]

set_user_state_NoSave(w, user_id, state, d) == {PutState(w, user_id, state, d)}

\* JsonStorage.set_user_state
set_user_state(w, user_id, state, d) == SaveData(PutState(w, user_id, state, d))

DelState_KeepData(w, user_id) ==
    [w EXCEPT !.data.user_states[user_id].state = "start"]

\* JsonStorage.clear_user_state, up to its call of _save_data
DelState(w, user_id) == [w EXCEPT !.data.user_states = Remove(@, user_id)]

\* JsonStorage.clear_user_state
clear_user_state(w, user_id) ==
    IF user_id \in DOMAIN w.data.user_states THEN SaveData(DelState(w, user_id)) ELSE {w}

---------------------------------------------------------------------------
(* Handlers.  check_subscription is an oracle: every call of it may answer *)
(* TRUE or FALSE.  show_subscription_required and show_welcome only send   *)
(* messages inside their own try/except, so they leave the world as it is. *)

\* start: save_user, then the subscription check and the welcome message
start(w, user_id, username, t) == Catch(save_user(w, user_id, username, t))

show_other_posts_NoState(w, user_id) == Catch(Reply(w))

\* show_other_posts
show_other_posts(w, user_id) ==
    Catch(UNION {
        IF ~sub THEN {Out(w, "feed_unsubscribed")}
        ELSE IF DOMAIN get_recent_posts(w.data.posts, 5) = {} THEN {w}
        ELSE Then(Reply(w),
                  LAMBDA x : set_user_state(x, user_id, "awaiting_support_confirmation", EmptyDict))
        : sub \in BOOLEAN})

show_categories_NoCheck(w, user_id) ==
    Catch(Then(Reply(w), LAMBDA x : UNION {
        Then(Reply(Out(x, IF sub THEN "categories" ELSE "unsubscribed")),
             LAMBDA y : set_user_state(y, user_id, "awaiting_category", EmptyDict))
        : sub \in BOOLEAN}))

\* show_categories (callback next_to_categories, and back_to_categories)
show_categories(w, user_id) ==
    Catch(Then(Reply(w), LAMBDA x : UNION {
        IF ~sub THEN {Out(x, "unsubscribed")}
        ELSE Then(Reply(Out(x, "categories")),
                  LAMBDA y : set_user_state(y, user_id, "awaiting_category", EmptyDict))
        : sub \in BOOLEAN}))

handle_category_selection_AnyKey(w, user_id, category_key) ==
    Catch(Then(Reply(w), LAMBDA x : UNION {
        IF ~sub THEN {Out(x, "unsubscribed")}
        ELSE set_user_state(Out(x, "category"), user_id, "awaiting_title",
                            [category |-> category_key])
        : sub \in BOOLEAN}))

\* handle_category_selection
handle_category_selection(w, user_id, category_key) ==
    Catch(Then(Reply(w), LAMBDA x : UNION {
        IF ~sub THEN {Out(x, "unsubscribed")}
        ELSE IF category_key \notin CATEGORIES THEN {Out(x, "bad_category")}
        ELSE set_user_state(Out(x, "category"), user_id, "awaiting_title",
                            [category |-> category_key])
        : sub \in BOOLEAN}))

handle_title_input_NoLimit(w, user_id, username, text, t) ==
    LET title == Strip(text)
        user_data == get_user_state(w.data, user_id).data
    IN Catch(UNION {
        IF ~sub THEN {Out(w, "unsubscribed")}
        ELSE IF "category" \notin DOMAIN user_data
             THEN Then(Reply(Out(w, "lost")), LAMBDA x : start(x, user_id, username, t))
        ELSE IF ~can_user_post(w.data.posts, user_id, t)
             THEN Then(Reply(Out(w, "limit")), LAMBDA x : show_other_posts(x, user_id))
        ELSE set_user_state(Out(w, "title"), user_id, "awaiting_url",
                            [category |-> user_data["category"], title |-> title])
        : sub \in BOOLEAN})

\* handle_title_input
handle_title_input(w, user_id, username, text, t) ==
    LET title == Strip(text)
        user_data == get_user_state(w.data, user_id).data
    IN Catch(UNION {
        IF ~sub THEN {Out(w, "unsubscribed")}
        ELSE IF Len(title) > TITLE_MAX THEN {Out(w, "title_too_long")}
        ELSE IF "category" \notin DOMAIN user_data
             THEN Then(Reply(Out(w, "lost")), LAMBDA x : start(x, user_id, username, t))
        ELSE IF ~can_user_post(w.data.posts, user_id, t)
             THEN Then(Reply(Out(w, "limit")), LAMBDA x : show_other_posts(x, user_id))
        ELSE set_user_state(Out(w, "title"), user_id, "awaiting_url",
                            [category |-> user_data["category"], title |-> title])
        : sub \in BOOLEAN})

\* handle_url_input.  No world is left when the id bound of the model is reached.
handle_url_input(w, user_id, username, text, t) ==
    LET url == Strip(text)
        user_data == get_user_state(w.data, user_id).data
    IN Catch(UNION {
        IF ~sub THEN {Out(w, "unsubscribed")}
        ELSE IF "category" \notin DOMAIN user_data \/ "title" \notin DOMAIN user_data
             THEN Then(Reply(Out(w, "lost")), LAMBDA x : start(x, user_id, username, t))
        ELSE IF ~is_valid_url(url) THEN {Out(w, "invalid_url")}
        ELSE IF w.next_post_id > MaxPostId THEN {}
        ELSE UNION {
            IF x.ret # 0
            THEN Then(Then(Reply(Out(x, "saved")), LAMBDA y : show_other_posts(y, user_id)),
                      LAMBDA y : clear_user_state(y, user_id))
            ELSE Then(Reply(Out(x, "save_failed")), LAMBDA y : clear_user_state(y, user_id))
            : x \in save_post(w, user_id, user_data["category"], user_data["title"], url, t)}
        : sub \in BOOLEAN})

\* handle_message: the text handler chosen by the state of the session
handle_message(w, user_id, username, text, t) ==
    LET state == get_user_state(w.data, user_id).state
    IN IF text = <<>> THEN {w}
       ELSE IF state = "awaiting_title" THEN handle_title_input(w, user_id, username, text, t)
       ELSE IF state = "awaiting_url" THEN handle_url_input(w, user_id, username, text, t)
       ELSE {Out(w, "use_start")}

handle_support_done_ClearAll(w, user_id) ==
    Then(Reply(w), LAMBDA x :
        SaveData([Out(x, "support_done") EXCEPT !.data.user_states = EmptyDict]))

\* handle_support_done: no try/except, an exception of answer() leaves the handler
handle_support_done(w, user_id) ==
    Then(Reply(w), LAMBDA x : clear_user_state(Out(x, "support_done"), user_id))

BackTargets == {"back_to_categories", "back_to_title", "start_over", "back_to_main"}

\* handle_back_navigation
handle_back_navigation(w, user_id, username, target, t) ==
    Then(Reply(w), LAMBDA x :
        IF target = "back_to_categories" THEN show_categories(x, user_id)
        ELSE IF target = "back_to_title"
             THEN IF "category" \notin DOMAIN get_user_state(x.data, user_id).data
                  THEN start(Out(x, "lost"), user_id, username, t)
                  ELSE {Out(x, "back_to_title")}
        ELSE start(Out(x, "start"), user_id, username, t))

\* handle_view_posts_only
handle_view_posts_only(w, user_id, username, t) ==
    Then(Reply(w), LAMBDA x :
        Then(save_user(x, user_id, username, t), LAMBDA y : UNION {
            IF ~sub THEN {Out(y, "unsubscribed")} ELSE show_other_posts(Out(y, "feed"), user_id)
            : sub \in BOOLEAN}))

admin_delete_post_Open(w, user_id, post_id) ==
    Then(Reply(w), LAMBDA x : delete_post(Out(x, "delete"), post_id))

\* admin_delete_post
admin_delete_post(w, user_id, post_id) ==
    Then(Reply(w), LAMBDA x :
        IF user_id \notin ADMIN_IDS THEN {Out(x, "denied")}
        ELSE delete_post(Out(x, "delete"), post_id))

\* admin_delete_all_callback
admin_delete_all_callback(w, user_id) ==
    Then(Reply(w), LAMBDA x :
        IF user_id \notin ADMIN_IDS THEN {Out(x, "denied")}
        ELSE delete_all_posts(Out(x, "delete_all")))

---------------------------------------------------------------------------
(* The bot as a state machine: handlers run one at a time, each to its end *)
(* (Application.builder() leaves concurrent_updates off).                  *)

\* pc: the place of the _save_data call in progress; failed: a step of that call has
\* raised; committed: the content data.json has had since the last save that succeeded
NoSave == [pc |-> "idle", failed |-> FALSE, committed |-> FileAbsent]
NoCall == [op |-> "none", user |-> 0, arg |-> 0, out |-> "none", ret |-> 0,
           raised |-> FALSE, feed |-> EmptyDict]

\* storage = JsonStorage() in a directory without data.json; b is the number of
\* failures the environment may inject
InitWith(b) ==
    /\ data = EmptyDocument
    /\ next_post_id = 1
    /\ file = FileAbsent
    /\ tmp = FileAbsent
    /\ backup = FileAbsent
    /\ now = 0
    /\ up = TRUE
    /\ returned = <<>>
    /\ deleted = {}
    /\ budget = b
    /\ sv = NoSave
    /\ last = NoCall

Running == up /\ sv.pc = "idle"

\* the world w becomes the state; the call is recorded in last when rec is TRUE
\* (arg is the input of the call: the text, the category key or the post id)
Commit(w, op, user_id, arg, rec) ==
    /\ data' = w.data
    /\ next_post_id' = w.next_post_id
    /\ file' = w.file
    /\ returned' = w.returned
    /\ deleted' = w.deleted
    /\ budget' = w.budget
    /\ last' = IF rec
               THEN [NoCall EXCEPT !.op = op, !.user = user_id, !.arg = arg, !.out = w.out,
                                   !.ret = w.ret, !.raised = w.exc]
               ELSE last
    /\ UNCHANGED <<tmp, backup, now, up, sv>>

\* the command /start
Start(u, rec) ==
    /\ Running
    /\ \E w \in start(World, u, UsernameOf(u), now) : Commit(w, "start", u, 0, rec)

\* the button "begin" (next_to_categories)
Begin(u, rec) ==
    /\ Running
    /\ \E w \in show_categories(World, u) : Commit(w, "begin", u, 0, rec)

ChooseCategory(u, key, rec) ==
    /\ Running
    /\ \E w \in handle_category_selection(World, u, key) : Commit(w, "category", u, key, rec)

TextInput(u, text, rec) ==
    /\ Running
    /\ \E w \in handle_message(World, u, UsernameOf(u), text, now) : Commit(w, "text", u, text, rec)

SupportDone(u, rec) ==
    /\ Running
    /\ \E w \in handle_support_done(World, u) : Commit(w, "support_done", u, 0, rec)

Back(u, target, rec) ==
    /\ Running
    /\ \E w \in handle_back_navigation(World, u, UsernameOf(u), target, now) :
          Commit(w, target, u, 0, rec)

ViewPosts(u, rec) ==
    /\ Running
    /\ \E w \in handle_view_posts_only(World, u, UsernameOf(u), now) :
          Commit(w, "view_posts", u, 0, rec)

AdminDeletePost(u, post_id, rec) ==
    /\ Running
    /\ \E w \in admin_delete_post(World, u, post_id) : Commit(w, "admin_delete", u, post_id, rec)

AdminDeleteAll(u, rec) ==
    /\ Running
    /\ \E w \in admin_delete_all_callback(World, u) : Commit(w, "admin_delete_all", u, 0, rec)

\* time passes
Tick ==
    /\ now < MaxTime
    /\ now' = now + 1
    /\ UNCHANGED <<data, next_post_id, file, tmp, backup, up, returned, deleted, budget, sv, last>>

\* the process is stopped and started again: storage = JsonStorage()
Restart(rec) ==
    /\ Running
    /\ \E copyOk \in BOOLEAN :
          LET s == StorageInit(file, backup, copyOk)
          IN /\ data' = s.data
             /\ next_post_id' = s.next_post_id
             /\ backup' = s.backup
             /\ up' = ~s.raised
             /\ last' = IF rec
                        THEN [NoCall EXCEPT !.op = "restart", !.raised = s.raised,
                                            !.arg = IF data = file.doc THEN 0 ELSE 1]
                        ELSE last
    /\ UNCHANGED <<file, tmp, now, returned, deleted, budget, sv>>

\* the events of the users of set U
Events(U, rec) ==
    \/ \E u \in U : Start(u, rec)
    \/ \E u \in U : Begin(u, rec)
    \/ \E u \in U, key \in CategoryKeys : ChooseCategory(u, key, rec)
    \/ \E u \in U, text \in Texts : TextInput(u, text, rec)
    \/ \E u \in U : SupportDone(u, rec)
    \/ \E u \in U, target \in BackTargets : Back(u, target, rec)
    \/ \E u \in U : ViewPosts(u, rec)
    \/ \E u \in U, post_id \in 1..MaxPostId : AdminDeletePost(u, post_id, rec)
    \/ \E u \in U : AdminDeleteAll(u, rec)

\* Spec: one user, who is an admin; up to MaxFaults saves or replies fail; last
\* records every call
Init == InitWith(MaxFaults)

Next ==
    \/ Events(ADMIN_IDS, TRUE)
    \/ Tick
    \/ Restart(TRUE)

Spec == Init /\ [][Next]_vars

\* SpecUsers: all the users; every save and every reply succeeds; last is not kept
InitUsers == InitWith(0)

NextUsers ==
    \/ Events(Users, FALSE)
    \/ Tick
    \/ Restart(FALSE)

SpecUsers == InitUsers /\ [][NextUsers]_vars

\* SpecLog: all the users, on one day; every save and every reply succeeds; last
\* records every call
NextLog ==
    \/ Events(Users, TRUE)
    \/ Restart(TRUE)

SpecLog == InitUsers /\ [][NextLog]_vars

\* SpecUrl: one user on one day, who also sends the text TxtNoHost; every save and
\* every reply succeeds; last is not kept
NextUrl ==
    \/ Events(ADMIN_IDS, FALSE)
    \/ \E u \in ADMIN_IDS : TextInput(u, TxtNoHost, FALSE)

SpecUrl == InitUsers /\ [][NextUrl]_vars

---------------------------------------------------------------------------
(* _save_data step by step, with the process killed at any point.          *)

\* what the storage methods do to the in-memory document before they call _save_data
Mutations(w) ==
    {AppendPost(w, u, "technology", Strip(TxtPadA), TxtLongUrl, now) :
        u \in {x \in Users : w.next_post_id <= MaxPostId}}
    \cup {PopPost(w, i) : i \in DOMAIN w.data.posts}
    \cup {ClearPosts(w)}
    \cup {PutUser(w, u, UsernameOf(u), now) : u \in {x \in Users : UsernameOf(x) # ""}}
    \cup {PutState(w, u, "awaiting_title", [category |-> "technology"]) : u \in ADMIN_IDS}
    \cup {DelState(w, u) : u \in DOMAIN w.data.user_states}

\* a storage method changes the document and enters _save_data, which stores
\* self.next_post_id in the document
CallSave ==
    /\ Running
    /\ \E m \in Mutations(World) :
          /\ data' = [m.data EXCEPT !.next_post_id = m.next_post_id]
          /\ next_post_id' = m.next_post_id
          /\ deleted' = m.deleted
    /\ sv' = [sv EXCEPT !.pc = "open", !.failed = FALSE]
    /\ last' = [NoCall EXCEPT !.op = "mutate"]
    /\ UNCHANGED <<file, tmp, backup, now, up, returned, budget>>

\* open(temp_filename, 'w'): the temporary file is created or truncated, or open raises
SaveOpen(ok) ==
    /\ up /\ sv.pc = "open"
    /\ IF ok THEN tmp' = FileGarbage /\ sv' = [sv EXCEPT !.pc = "dump"]
       ELSE tmp' = tmp /\ sv' = [sv EXCEPT !.pc = "except", !.failed = TRUE]
    /\ UNCHANGED <<data, next_post_id, file, backup, now, up, returned, deleted, budget, last>>

SaveDump_InPlace(ok) ==
    /\ up /\ sv.pc = "dump"
    /\ IF ok THEN file' = FileDoc(data) /\ sv' = [sv EXCEPT !.pc = "replace"]
       ELSE file' = FileGarbage /\ sv' = [sv EXCEPT !.pc = "except", !.failed = TRUE]
    /\ UNCHANGED <<data, next_post_id, tmp, backup, now, up, returned, deleted, budget, last>>

\* json.dump(self.data, f) and the end of the with block: the whole text is in the
\* temporary file, or the dump raises and leaves a part of it
SaveDump(ok) ==
    /\ up /\ sv.pc = "dump"
    /\ IF ok THEN tmp' = FileDoc(data) /\ sv' = [sv EXCEPT !.pc = "replace"]
       ELSE tmp' = FileGarbage /\ sv' = [sv EXCEPT !.pc = "except", !.failed = TRUE]
    /\ UNCHANGED <<data, next_post_id, file, backup, now, up, returned, deleted, budget, last>>

\* os.replace / os.rename of the temporary file over data.json, then return True;
\* or the call raises
SaveReplace(ok) ==
    /\ up /\ sv.pc = "replace"
    /\ IF ok
       THEN /\ file' = tmp
            /\ tmp' = FileAbsent
            /\ sv' = [sv EXCEPT !.pc = "idle", !.committed = FileDoc(data)]
            /\ last' = [NoCall EXCEPT !.op = "_save_data", !.ret = 1]
       ELSE /\ sv' = [sv EXCEPT !.pc = "except", !.failed = TRUE]
            /\ UNCHANGED <<file, tmp, last>>
    /\ UNCHANGED <<data, next_post_id, backup, now, up, returned, deleted, budget>>

SaveExcept_KeepTmp ==
    /\ up /\ sv.pc = "except"
    /\ sv' = [sv EXCEPT !.pc = "idle"]
    /\ last' = [NoCall EXCEPT !.op = "_save_data", !.ret = 0]
    /\ UNCHANGED <<data, next_post_id, file, tmp, backup, now, up, returned, deleted, budget>>

\* the except block: the temporary file is removed if it exists, then return False
SaveExcept ==
    /\ up /\ sv.pc = "except"
    /\ tmp' = FileAbsent
    /\ sv' = [sv EXCEPT !.pc = "idle"]
    /\ last' = [NoCall EXCEPT !.op = "_save_data", !.ret = 0]
    /\ UNCHANGED <<data, next_post_id, file, backup, now, up, returned, deleted, budget>>

\* the process is killed: the memory is lost, the files stay
Kill ==
    /\ up
    /\ up' = FALSE
    /\ data' = EmptyDocument
    /\ next_post_id' = 1
    /\ sv' = [sv EXCEPT !.pc = "idle"]
    /\ last' = [NoCall EXCEPT !.op = "kill"]
    /\ UNCHANGED <<file, tmp, backup, now, returned, deleted, budget>>

\* the process starts: storage = JsonStorage().  It ends at once when __init__ raises.
Boot(copyOk) ==
    /\ ~up
    /\ LET s == StorageInit(file, backup, copyOk)
       IN /\ data' = s.data
          /\ next_post_id' = s.next_post_id
          /\ backup' = s.backup
          /\ up' = ~s.raised
          /\ last' = [NoCall EXCEPT !.op = "boot", !.arg = IF copyOk THEN 1 ELSE 0,
                                    !.raised = s.raised]
    /\ UNCHANGED <<file, tmp, now, returned, deleted, budget, sv>>

NextSave ==
    \/ CallSave
    \/ \E ok \in BOOLEAN : SaveOpen(ok)
    \/ \E ok \in BOOLEAN : SaveDump(ok)
    \/ \E ok \in BOOLEAN : SaveReplace(ok)
    \/ SaveExcept
    \/ Kill
    \/ Boot(TRUE)
    \/ Tick

\* SpecSave: the storage methods, with _save_data taken step by step
SpecSave == InitWith(0) /\ [][NextSave]_vars

---------------------------------------------------------------------------
(* A start on a data.json of any content, and the pure reads.               *)

SamplePost(user_id, category, created_at) ==
    [user_id |-> user_id, category |-> category, title |-> Strip(TxtPadA), url |-> TxtHttp,
     created_at |-> created_at, id |-> 0]

PostSamples ==
    {SamplePost(1, "technology", TsMissing),
     SamplePost(1, "technology", IsoFormat(0)),
     SamplePost(1, "technology", IsoFormat(MaxTime)),
     SamplePost(1, "money", TsBadHigh),
     SamplePost(1, "money", TsOffset),
     SamplePost(2, "technology", IsoFormat(0)),
     SamplePost(2, "hack", TsBadLow)}

\* the post lists of at most n sample posts, with the ids 1, 2, ... in order
PostLists(n) ==
    UNION {{[i \in 1..k |-> [f[i] EXCEPT !.id = i]] : f \in [1..k -> PostSamples]} : k \in 0..n}

\* sessions as the program writes them, and sessions that lack a field
SessionSamples ==
    {[state |-> "awaiting_title", data |-> EmptyDict],
     [state |-> "awaiting_title", data |-> [category |-> "technology"]],
     [state |-> "awaiting_url", data |-> EmptyDict],
     [state |-> "awaiting_url", data |-> [category |-> "technology"]],
     [state |-> "awaiting_url", data |-> [title |-> Strip(TxtPadA)]],
     [state |-> "awaiting_url", data |-> [category |-> "technology", title |-> Strip(TxtPadA)]]}

DocOf(posts, user_states) ==
    [posts |-> posts, users |-> EmptyDict, user_states |-> user_states,
     next_post_id |-> Len(posts) + 1]

DocSamples ==
    {DocOf(posts, EmptyDict) : posts \in PostLists(MaxLen)}
    \cup {DocOf(posts, [u \in ADMIN_IDS |-> ss]) : posts \in PostLists(1), ss \in SessionSamples}

AnyFiles ==
    {FileAbsent, FileUnreadable, FileGarbage, FileNonObject} \cup {FileDoc(d) : d \in DocSamples}

InitAny ==
    /\ file \in AnyFiles
    /\ now \in 0..MaxTime
    /\ up = FALSE
    /\ data = EmptyDocument
    /\ next_post_id = 1
    /\ tmp = FileAbsent
    /\ backup = FileAbsent
    /\ returned = <<>>
    /\ deleted = {}
    /\ budget = 0
    /\ sv = NoSave
    /\ last = NoCall

\* storage.can_user_post(u) is called
CanUserPostCall(u) ==
    /\ Running
    /\ last' = [NoCall EXCEPT !.op = "can_user_post", !.user = u,
                              !.ret = IF can_user_post(data.posts, u, now) THEN 1 ELSE 0]
    /\ UNCHANGED <<data, next_post_id, file, tmp, backup, now, up, returned, deleted, budget, sv>>

\* storage.get_recent_posts(limit) is called
RecentPostsCall(limit) ==
    /\ Running
    /\ last' = [NoCall EXCEPT !.op = "get_recent_posts", !.arg = limit,
                              !.feed = get_recent_posts(data.posts, limit)]
    /\ UNCHANGED <<data, next_post_id, file, tmp, backup, now, up, returned, deleted, budget, sv>>

NextAny ==
    \/ \E copyOk \in BOOLEAN : Boot(copyOk)
    \/ \E u \in Users : CanUserPostCall(u)
    \/ \E limit \in 0..MaxLimit : RecentPostsCall(limit)
    \/ \E u \in ADMIN_IDS, text \in Texts : TextInput(u, text, TRUE)

\* SpecAny: the process starts on a data.json of any content
SpecAny == InitAny /\ [][NextAny]_vars

---------------------------------------------------------------------------
(* Properties *)

PostsOf(u) == {p \in Range(data.posts) : p.user_id = u}

\* C1: the post collection never holds two posts of the same author whose createdAt
\* fall on the same UTC calendar date, whatever events, failed replies and admin
\* deletions have happened
C1_OnePostPerUserPerDay ==
    \A i, j \in DOMAIN data.posts :
        (i < j /\ data.posts[i].user_id = data.posts[j].user_id)
        => data.posts[i].created_at.utc # data.posts[j].created_at.utc

\* C2: for every user U, can_user_post(U) is true when U has no post, false while a
\* post of U saved on the current UTC date is in the registry, and true again once
\* the UTC date is past the date of every post of U
C2_CanUserPost ==
    \A u \in Users :
        LET can == can_user_post(data.posts, u, now)
        IN /\ (PostsOf(u) = {} => can)
           /\ ((\E p \in PostsOf(u) : p.created_at.utc = Today(now)) => ~can)
           /\ ((PostsOf(u) # {} /\ \A p \in PostsOf(u) : p.created_at.utc < Today(now)) => can)

\* one user has posted today, the other one on an earlier day
C2_Witness ==
    \E u, v \in Users :
        /\ \E p \in PostsOf(u) : p.created_at.utc = Today(now)
        /\ PostsOf(v) # {}
        /\ \A p \in PostsOf(v) : p.created_at.utc < Today(now)

\* C3: every id save_post returns is greater than every id it returned before, and
\* is not the id of a post that was deleted
C3_IdsIncrease ==
    [][Len(returned') > Len(returned)
       => /\ \A i \in DOMAIN returned : returned'[Len(returned')] > returned[i]
          /\ returned'[Len(returned')] \notin deleted]_vars

\* a second id was returned after the post of the first one was deleted
C3_Witness == Len(returned) = 2 /\ returned[1] \in deleted

\* C4: next_post_id is greater than the id of every post, in the in-memory document
\* and in the persisted one, also after a restart that follows a failed save
C4_NextPostIdAbove ==
    /\ \A p \in Range(data.posts) : p.id < next_post_id /\ p.id < data.next_post_id
    /\ file.kind = "doc" => \A p \in Range(file.doc.posts) : p.id < file.doc.next_post_id

\* a restart dropped changes that no save had persisted, and loaded a document with posts
C4_Witness == last.op = "restart" /\ last.arg = 1 /\ data.posts # <<>>

C6_RoundTrip ==
    /\ (last.op = "_save_data" /\ last.ret = 1)
       => LET s == StorageInit(file, backup, TRUE)
          IN ~s.raised /\ s.data = data /\ s.next_post_id = next_post_id
    /\ last.op = "boot"
       => /\ ~last.raised
          /\ data = sv.committed.doc
          /\ next_post_id = sv.committed.doc.next_post_id

\* the process was killed in a save that had written its temporary file, and started
\* again on the document of an earlier save
C6_Witness ==
    /\ last.op = "boot"
    /\ tmp # FileAbsent
    /\ data.posts # <<>>

\* C7: loading never raises; an absent or unreadable file gives the empty document; a
\* malformed file (JSON that is not an object included) is copied to the backup,
\* unless the copy fails, and gives the empty document
C7_LoadAbsorbsCorruption ==
    last.op = "boot"
    => /\ ~last.raised
       /\ file.kind \in {"absent", "unreadable"} => data = EmptyDocument /\ next_post_id = 1
       /\ file.kind \in {"garbage", "nonobject"}
          => /\ data = EmptyDocument /\ next_post_id = 1
             /\ last.arg = 1 => backup = file

\* C8: every key of get_recent_posts(limit) is one of the 7 categories and has a
\* post; the value of a category is min(limit, n) of its n posts, those of the
\* greatest createdAt, in descending order of createdAt
C8_RecentPosts ==
    last.op = "get_recent_posts"
    => LET feed == last.feed
           in(c) == {p \in Range(data.posts) : p.category = c}
           k(c) == IF last.arg < Cardinality(in(c)) THEN last.arg ELSE Cardinality(in(c))
       IN /\ Cardinality(CATEGORIES) = 7
          /\ DOMAIN feed \subseteq {c \in CATEGORIES : in(c) # {}}
          /\ \A c \in CATEGORIES : k(c) > 0 => c \in DOMAIN feed
          /\ \A c \in DOMAIN feed :
                /\ Len(feed[c]) = k(c)
                /\ Range(feed[c]) \subseteq in(c)
                /\ Cardinality(Range(feed[c])) = k(c)
                /\ \A i, j \in DOMAIN feed[c] :
                      i < j => feed[c][i].created_at.rank >= feed[c][j].created_at.rank
                /\ \A p \in in(c) \ Range(feed[c]), q \in Range(feed[c]) :
                      p.created_at.rank <= q.created_at.rank

\* the newest posts of a category were chosen from more posts than the limit, stored
\* in another order
C8_Witness ==
    /\ last.op = "get_recent_posts"
    /\ \E c \in DOMAIN last.feed :
          LET stored == SelectSeq(data.posts, LAMBDA p : p.category = c)
          IN Len(stored) > last.arg /\ last.feed[c] # Take(stored, last.arg)

\* C9: can_user_post(U) is true exactly when U has no post, or the createdAt of the
\* most recent post of U is missing or malformed, or its UTC calendar date is before
\* today's UTC date
C9_CanUserPostExactly ==
    last.op = "can_user_post"
    => LET mine == PostsOf(last.user)
           latest == {p \in mine : \A q \in mine : q.created_at.rank <= p.created_at.rank}
       IN (last.ret = 1)
          <=> \/ mine = {}
              \/ \E p \in latest : p.created_at.utc = NoDay \/ p.created_at.utc < Today(now)

\* the session of user u lacks what its state needs
LostSession(u) ==
    LET session == get_user_state(data, u)
    IN \/ session.state = "awaiting_title" /\ "category" \notin DOMAIN session.data
       \/ session.state = "awaiting_url" /\ ~({"category", "title"} \subseteq DOMAIN session.data)

\* C10: a text input for a user in awaiting_title without a category, or in
\* awaiting_url without a category or a title, does not fail, creates no post and
\* leaves the session of the user in start with empty data
C10_LostSessionReset ==
    [][\A u \in Users :
          (LostSession(u) /\ last'.op = "text" /\ last'.user = u)
          => /\ ~last'.raised
             /\ data'.posts = data.posts
             /\ get_user_state(data', u) = StartSession]_vars

\* the step is the handling of the event op of user u (Tick alone leaves last as it is)
Handled(op, u) == last'.op = op /\ last'.user = u /\ now' = now

\* no save and no reply of the step failed
NoFault == budget' = budget

C12_UrlAccepted ==
    [][\A u \in Users :
          LET session == get_user_state(data, u)
              after == get_user_state(data', u)
          IN (/\ Handled("text", u)
              /\ NoFault
              /\ session.state = "awaiting_url"
              /\ {"category", "title"} \subseteq DOMAIN session.data
              /\ is_valid_url(Strip(last'.arg))
              /\ last'.out \notin {"unsubscribed", "feed_unsubscribed"}
              /\ Len(returned') > Len(returned))
             => /\ data'.posts = Append(data.posts,
                                        [user_id |-> u, category |-> session.data.category,
                                         title |-> session.data.title,
                                         url |-> Strip(last'.arg),
                                         created_at |-> IsoFormat(now), id |-> next_post_id])
                /\ after.state = "awaiting_support_confirmation"
                /\ DOMAIN after.data \cap {"category", "title"} = {}]_vars

\* C13: delete_post(id) returns true exactly when a post of that id was in the
\* collection, and then that post and no other is removed; it returns false exactly
\* when no post had the id; also when the save after the removal fails
C13_DeletePostResult ==
    [][\A u \in ADMIN_IDS :
          (Handled("admin_delete", u) /\ last'.out = "delete")
          => LET hit == {i \in DOMAIN data.posts : data.posts[i].id = last'.arg}
             IN IF hit = {}
                THEN last'.ret = 0 /\ data'.posts = data.posts
                ELSE /\ last'.ret = 1
                     /\ \E i \in hit : data'.posts = RemoveAt(data.posts, i)]_vars

\* C14: delete_all_posts leaves the collection empty and returns the number of posts
\* it held, also when the save fails; next_post_id stays as it was
C14_DeleteAllResult ==
    [][\A u \in ADMIN_IDS :
          (Handled("admin_delete_all", u) /\ last'.out = "delete_all")
          => /\ data'.posts = <<>>
             /\ last'.ret = Len(data.posts)
             /\ next_post_id' = next_post_id]_vars

\* C15: a post leaves the collection only in a delete or delete-all request of a
\* sender of ADMIN_IDS; such a request of any other user leaves the posts and
\* data.json as they were
C15_OnlyAdminsRemove ==
    [][/\ (\E p \in Range(data.posts) : p \notin Range(data'.posts))
          => /\ last'.op \in {"admin_delete", "admin_delete_all"}
             /\ last'.user \in ADMIN_IDS
       /\ \A u \in Users \ ADMIN_IDS :
             (Handled("admin_delete", u) \/ Handled("admin_delete_all", u))
             => data'.posts = data.posts /\ file' = file]_vars

\* a user outside ADMIN_IDS asked for the deletion of a post that exists, and it stayed
C15_Witness ==
    /\ last.op = "admin_delete"
    /\ last.user \notin ADMIN_IDS
    /\ \E p \in Range(data.posts) : p.id = last.arg

\* C16: save_post runs for a user only in a step at whose start can_user_post of
\* that user holds: no other event comes between the daily check and the submission
C16_CheckGuardsSubmission ==
    [][\A u \in Users :
          (Handled("text", u) /\ Len(data'.posts) > Len(data.posts))
          => can_user_post(data.posts, u, now)]_vars

\* C17: after a back navigation the session is in the state of the step it targets:
\* awaiting_title after back_to_title from awaiting_url, awaiting_category after
\* back_to_categories, start after back_to_main and start_over
C17_BackReachesTarget ==
    [][\A u \in Users :
          LET session == get_user_state(data, u)
              after == get_user_state(data', u)
          IN /\ (Handled("back_to_title", u) /\ session.state = "awaiting_url")
                => after.state = "awaiting_title"
             /\ (Handled("back_to_categories", u) /\ last'.out # "unsubscribed")
                => after.state = "awaiting_category"
             /\ (Handled("start_over", u) \/ Handled("back_to_main", u))
                => after.state = "start"]_vars

\* C18: a back navigation discards the data of the steps not reached again: no
\* category and no title after back_to_categories, no title after back_to_title
C18_BackDiscardsData ==
    [][\A u \in Users :
          LET session == get_user_state(data, u)
              after == get_user_state(data', u)
          IN /\ (Handled("back_to_categories", u) /\ last'.out # "unsubscribed")
                => DOMAIN after.data \cap {"category", "title"} = {}
             /\ (Handled("back_to_title", u) /\ session.state = "awaiting_url")
                => "title" \notin DOMAIN after.data]_vars

\* C19: the session data of every user holds a title only with a category, and a
\* session in the state start holds neither
C19_SessionDataShape ==
    \A u \in Users :
        LET session == get_user_state(data, u)
        IN /\ "title" \in DOMAIN session.data => "category" \in DOMAIN session.data
           /\ session.state = "start" => DOMAIN session.data \cap {"category", "title"} = {}

\* one user has entered a title, another one is back in start after a submission
C19_Witness ==
    \E u, v \in Users :
        /\ "title" \in DOMAIN get_user_state(data, u).data
        /\ get_user_state(data, v).state = "start"
        /\ PostsOf(v) # {}

\* C20: a title of at most 50 characters sent in awaiting_title with a category,
\* by a subscribed user for whom can_user_post is false, creates no post and leaves
\* the session in awaiting_support_confirmation, not in awaiting_url
C20_LimitReached ==
    [][\A u \in Users :
          LET session == get_user_state(data, u)
              after == get_user_state(data', u)
          IN (/\ Handled("text", u)
              /\ session.state = "awaiting_title"
              /\ "category" \in DOMAIN session.data
              /\ Len(Strip(last'.arg)) <= TITLE_MAX
              /\ ~can_user_post(data.posts, u, now)
              /\ last'.out \notin {"unsubscribed", "feed_unsubscribed"})
             => /\ data'.posts = data.posts
                /\ after.state # "awaiting_url"
                /\ after.state = "awaiting_support_confirmation"]_vars

\* a user who has posted today sent a title and was led to the feed
C20_Witness ==
    /\ last.op = "text"
    /\ last.out = "limit"
    /\ ~can_user_post(data.posts, last.user, now)
    /\ get_user_state(data, last.user).state = "awaiting_support_confirmation"

\* C21: after a support confirmation the session of the user is start with empty
\* data, whatever its state was; the posts and the sessions of the other users are
\* as they were
C21_SupportDoneResets ==
    [][\A u \in Users :
          Handled("support_done", u)
          => /\ get_user_state(data', u) = StartSession
             /\ data'.posts = data.posts
             /\ \A v \in Users \ {u} : get_user_state(data', v) = get_user_state(data, v)]_vars

\* a confirmation was handled while another user was in the middle of a submission
\* and the registry held a post
C21_Witness ==
    /\ last.op = "support_done"
    /\ data.posts # <<>>
    /\ \E v \in Users \ {last.user} : get_user_state(data, v).state = "awaiting_url"

\* C22: a session enters awaiting_category only in an event of its user in which
\* check_subscription answered true; a begin, category, title or URL event in which
\* it answers false leaves the session of the user and the posts as they were
C22_SubscriptionGate ==
    [][\A u \in Users :
          LET session == get_user_state(data, u)
              after == get_user_state(data', u)
          IN /\ (/\ last'.op # "restart"
                 /\ now' = now
                 /\ session.state # "awaiting_category"
                 /\ after.state = "awaiting_category")
                => last'.user = u /\ last'.out = "categories"
             /\ (/\ Handled("begin", u) \/ Handled("category", u) \/ Handled("text", u)
                 /\ last'.out = "unsubscribed")
                => after = session /\ data'.posts = data.posts]_vars

\* a user in the middle of a submission sent a text while unsubscribed
C22_Witness ==
    /\ last.op = "text"
    /\ last.out = "unsubscribed"
    /\ get_user_state(data, last.user).state = "awaiting_url"

\* C23: every operation that changes the in-memory document saves it before it
\* returns: after an event that changed the document, and in which no save failed,
\* data.json holds the in-memory document (posts, users, sessions, next_post_id)
C23_MutationsAreSaved ==
    [][(/\ data' # data
        /\ last'.op # "restart"
        /\ now' = now
        /\ NoFault)
       => /\ file' = FileDoc(data')
          /\ file'.doc.next_post_id = next_post_id']_vars

\* an event saved the document after an earlier save had failed
C23_Witness ==
    /\ last.op = "text"
    /\ last.out = "saved"
    /\ budget < MaxFaults
    /\ file = FileDoc(data)
    /\ Len(data.posts) > 1

\* C24: every post has a category of CATEGORIES, a title of at most 50 characters
\* and a URL of scheme http or https with a host that is not empty
C24_PostsAreValid ==
    \A p \in Range(data.posts) :
        /\ p.category \in CATEGORIES
        /\ Len(p.title) <= TITLE_MAX
        /\ urlparse(p.url).scheme \in {<<"h", "t", "t", "p">>, <<"h", "t", "t", "p", "s">>}
        /\ hostname(urlparse(p.url).netloc) # <<>>

\* C25: data.json never holds a post whose save_post returned None: every post of
\* the persisted document has an id that save_post returned
C25_FailedSubmissionNotCommitted ==
    file.kind = "doc" => \A p \in Range(file.doc.posts) : p.id \in Range(returned)

\* a session of document d in awaiting_title holds a category of CATEGORIES, one in
\* awaiting_url also a title of at most 50 characters
SessionsComplete(d) ==
    \A u \in DOMAIN d.user_states :
        LET session == d.user_states[u]
        IN /\ session.state \in {"awaiting_title", "awaiting_url"}
              => /\ "category" \in DOMAIN session.data
                 /\ session.data.category \in CATEGORIES
           /\ session.state = "awaiting_url"
              => /\ "title" \in DOMAIN session.data
                 /\ Len(session.data.title) <= TITLE_MAX

\* C26: in every state reached from an empty document, failed saves and restarts
\* included, the sessions in awaiting_title and awaiting_url hold what their state
\* needs, in memory and in data.json, and no text input takes a missing-data branch
C26_SessionsComplete ==
    /\ SessionsComplete(data)
    /\ file.kind = "doc" => SessionsComplete(file.doc)
    /\ last.op = "text" => last.out # "lost"

\* a restart after a failed save brought back a session in awaiting_url
C26_Witness ==
    /\ last.op = "restart"
    /\ last.arg = 1
    /\ \E u \in Users : get_user_state(data, u).state = "awaiting_url"

===========================================================================
